---- MODULE Spec2Model ----
(***************************************************************************)
(* Model of ggbackuplib/ggbackup.py (class GGBackup): the session state,   *)
(* the group listing, the batcher, and the batched settings and            *)
(* membership fetches with their per-item callbacks.                       *)
(*                                                                         *)
(* Emails are sequences of characters so that str.lower() is computed      *)
(* character by character.  A dict is a function whose DOMAIN is its key   *)
(* set.  Python's None is the string "None" for the three session handles  *)
(* and a record with present = FALSE for the credentials.                  *)
(***************************************************************************)
EXTENDS Integers, Sequences, FiniteSets, TLC

(***************************************************************************)
(* Bounds of the model                                                     *)
(***************************************************************************)
\* Size of a batch in the session model.  The code's literal is 1000
\* (Thousand below); the session model runs the same batch operator with
\* this smaller size so that several batches occur with a few groups.
BatchSize == 2
\* Longest input of the stand-alone batch() runs (two full batches and one more item).
MaxLen == 2001
\* Data operations (get_groups / get_settings / get_members) started in one session.
MaxOps == 3
\* Failing sub-requests in one session.
MaxFail == 1

\* The literal 1000 of batch().
Thousand == 1000

None == "None"

(***************************************************************************)
(* str.lower()                                                             *)
(***************************************************************************)
LowerChar(c) ==
    CASE c = "A" -> "a"
      [] c = "B" -> "b"
      [] c = "C" -> "c"
      [] OTHER -> c

lower(s) == [i \in 1..Len(s) |-> LowerChar(s[i])]

(***************************************************************************)
(* batch(items): ceil(len/size) slices items[i*size:(i+1)*size]            *)
(***************************************************************************)
\* ceil(float(n) / d) for n >= 0, d > 0
ceil(n, d) == (n + d - 1) \div d

\* Python slice items[low:high] with 0 <= low <= high (0-based, clipped to len)
Slice(items, low, high) ==
    LET hi == IF high < Len(items) THEN high ELSE Len(items)
    IN  IF low >= hi THEN << >> ELSE SubSeq(items, low + 1, hi)

RECURSIVE batchLoop(_, _, _, _, _)
batchLoop(items, size, count, i, batches) ==
    IF i < count
    THEN batchLoop(items, size, count, i + 1,
                   Append(batches, Slice(items, i * size, (i + 1) * size)))
    ELSE batches

\* batch() with the count rounded down
batchSized_floor(items, size) == batchLoop(items, size, Len(items) \div size, 0, << >>)

\* batch() with one batch too many on an exact multiple
batchSized_extra(items, size) == batchLoop(items, size, (Len(items) \div size) + 1, 0, << >>)

batchSized(items, size) == batchLoop(items, size, ceil(Len(items), size), 0, << >>)

batch(items) == batchSized(items, BatchSize)

(***************************************************************************)
(* The remote side: the directory listing, the settings and the members    *)
(***************************************************************************)
Ax == <<"A", "x">>
ax == <<"a", "x">>
bx == <<"b", "x">>
Cx == <<"C", "x">>
cx == <<"c", "x">>
\* An email no listing ever returns.
zx == <<"z", "x">>

\* The spellings the remote side uses.
Emails == {Ax, ax, bx, Cx}

\* A group object of groups().list
Group(e, n) == [email |-> e, id |-> n, name |-> n]

\* The listings the domain can have: a sequence of pages, each page the
\* sequence response['groups'].
Listings ==
    { << <<Group(Ax, 1), Group(bx, 2)>>, <<Group(Cx, 3)>> >>,
      << <<Group(Ax, 1), Group(ax, 4)>>, <<Group(bx, 2)>> >> }

\* The membership pages of a group, by lowercased key.
MemberPages(k) ==
    CASE k = ax -> << <<1, 2>>, <<3, 4, 5>> >>
      [] k = bx -> << << >> >>
      [] k = cx -> << <<6>>, << >>, <<7>> >>
      [] OTHER -> << << >> >>

\* Response of members().list(groupKey, nextPage=token): the page after the
\* token (token 0: the first page); 'members' is absent on an empty page,
\* 'nextPageToken' is absent on the last page.
MembersResponse(groupKey, token) ==
    LET pages == MemberPages(lower(groupKey))
        p     == token + 1
        mem   == IF pages[p] = << >> THEN << >> ELSE [members |-> pages[p]]
        nxt   == IF p < Len(pages) THEN [nextPageToken |-> p] ELSE << >>
    IN  mem @@ nxt

\* Response of gsetservice.groups().get(groupUniqueId): the settings object,
\* carrying the group's email as the settings service spells it.
SettingsResponse(e, groupUniqueId) ==
    [email |-> e, name |-> 10, whoCanJoin |-> "ALL"]

\* The spellings the settings service may answer with for a group.
SettingsEmails(groupUniqueId) ==
    {e \in Emails : lower(e) = lower(groupUniqueId)} \cup {zx}

(***************************************************************************)
(* State                                                                   *)
(***************************************************************************)
VARIABLES
    credentials,    \* self.credentials
    http_auth,      \* self.http_auth
    service,        \* self.service
    gsetservice,    \* self.gsetservice
    groups,         \* self.groups: lowercased email -> group record
    groupKeys,      \* the keys of self.groups in the dict's (insertion) order
    group_batch,    \* self._group_batch (the cache test of group_batches)
    group_batches,  \* <<self._group_batches>>, << >> while the attribute is not set
    next_batch,     \* self._next_batch: sequence of (request_id, request)
    remote,         \* the listing the directory service answers with
    pc,             \* where the running operation stands ("idle": none runs)
    op,             \* the data operation running or last run
    call,           \* the method invoked last; for auth, whether the access token
                    \* had expired when it was invoked
    batches,        \* the list the current for loop iterates
    bi,             \* index of the next batch of that loop to execute
    inflight,       \* sub-requests of the executing batch not yet called back
    depth,          \* active run_next_batch invocations
    error,          \* exception raised by the last operation ("" = none)
    nops,           \* data operations started
    fails,          \* failing sub-requests so far
    issued,         \* sub-requests issued by the current operation, in order
    handled,        \* sub-responses handled by the current operation, in order
    startGroups,    \* self.groups when the current operation started
    runs,           \* get_members runs without an error since the records were listed afresh; -1: not such a session
    prevList,       \* <<self.groups>> right after a get_groups, while nothing else ran
    listPair,       \* <<after first, after second>> of two get_groups in a row
    items,          \* input of the stand-alone batch() run
    result          \* <<batch(items)>> once computed

vars == <<credentials, http_auth, service, gsetservice, groups, groupKeys, group_batch,
          group_batches, next_batch, remote, pc, op, call, batches, bi, inflight, depth,
          error, nops, fails, issued, handled, startGroups, runs, prevList, listPair,
          items, result>>

sessionVars == <<http_auth, service, gsetservice>>
fetchVars   == <<groups, groupKeys, group_batches, next_batch, op, batches, bi, inflight,
                 depth, issued, handled, startGroups, runs>>
batchVars   == <<items, result>>

\* An invocation of a method
Call(name) == [name |-> name, expired |-> FALSE]

NoCredentials == [present |-> FALSE, invalid |-> FALSE]

\* What the credential store or the code exchange can hand back.
Credentials ==
    {NoCredentials} \cup
    {[present |-> TRUE, invalid |-> i] : i \in BOOLEAN}

\* __init__
Init ==
    /\ credentials = NoCredentials
    /\ http_auth = None
    /\ service = None
    /\ gsetservice = None
    /\ groups = << >>
    /\ groupKeys = << >>
    /\ group_batch = None
    /\ group_batches = << >>
    /\ next_batch = << >>
    /\ remote \in Listings
    /\ pc = "idle"
    /\ op = "none"
    /\ call = Call("none")
    /\ batches = << >>
    /\ bi = 1
    /\ inflight = {}
    /\ depth = 0
    /\ error = ""
    /\ nops = 0
    /\ fails = 0
    /\ issued = << >>
    /\ handled = << >>
    /\ startGroups = << >>
    /\ runs = 0
    /\ prevList = << >>
    /\ listPair = << >>
    /\ items = << >>
    /\ result = << >>

(***************************************************************************)
(* Credentials and session                                                 *)
(*                                                                         *)
(* These methods are explored until the first data operation passes        *)
(* check_auth (op = "none").  From then on the three handles stay bound,   *)
(* since nothing assigns None to them, and the data operations read        *)
(* nothing else of the credentials or the session.                         *)
(***************************************************************************)
\* check_credentials that only tests for None
check_credentials_present(c) ==
    IF ~c.present THEN "Credentials not found." ELSE ""

\* check_credentials: the exception it raises, "" when it returns
check_credentials(c) ==
    IF ~c.present THEN "Credentials not found."
    ELSE IF c.invalid THEN "Credentials are invalid."
    ELSE ""

\* check_auth that forgets the settings service
check_auth_two(h, s, g) ==
    IF h = None THEN "HTTP Auth not completed."
    ELSE IF s = None THEN "Admin SDK service is not available."
    ELSE ""

\* check_auth: the exception it raises, "" when it returns
check_auth(h, s, g) ==
    IF h = None THEN "HTTP Auth not completed."
    ELSE IF s = None THEN "Admin SDK service is not available."
    ELSE IF g = None THEN "Groups Settings service is not available."
    ELSE ""

\* first_auth: the code exchange returns fresh credentials
first_auth ==
    /\ pc = "idle"
    /\ op = "none"
    /\ credentials' = [present |-> TRUE, invalid |-> FALSE]
    /\ error' = ""
    /\ call' = Call("first_auth")
    /\ UNCHANGED <<sessionVars, fetchVars, batchVars, group_batch, remote, pc,
                   nops, fails, prevList, listPair>>

\* load: whatever the store holds, None included
load ==
    /\ pc = "idle"
    /\ op = "none"
    /\ \E c \in Credentials : credentials' = c
    /\ error' = ""
    /\ call' = Call("load")
    /\ UNCHANGED <<sessionVars, fetchVars, batchVars, group_batch, remote, pc,
                   nops, fails, prevList, listPair>>

\* save: check_credentials, then storage.put
save ==
    /\ pc = "idle"
    /\ op = "none"
    /\ error' = check_credentials(credentials)
    /\ call' = Call("save")
    /\ UNCHANGED <<credentials, sessionVars, fetchVars, batchVars, group_batch,
                   remote, pc, nops, fails, prevList, listPair>>

\* auth when check_credentials raises
authRejected(expired) ==
    /\ pc = "idle"
    /\ op = "none"
    /\ check_credentials(credentials) # ""
    /\ error' = check_credentials(credentials)
    /\ call' = [name |-> "auth", expired |-> expired]
    /\ UNCHANGED <<credentials, sessionVars, fetchVars, batchVars, group_batch,
                   remote, pc, nops, fails, prevList, listPair>>

\* auth: authorize, then the two discovery.build calls; built = number of
\* builds that return before one raises (2: both return).  expired: whether
\* the access token's expiry time has passed, which auth never looks at.
authBind(built, expired) ==
    /\ pc = "idle"
    /\ op = "none"
    /\ check_credentials(credentials) = ""
    /\ http_auth' = "bound"
    /\ service' = IF built >= 1 THEN "bound" ELSE service
    /\ gsetservice' = IF built >= 2 THEN "bound" ELSE gsetservice
    /\ error' = IF built = 2 THEN "" ELSE "discovery.build failed"
    /\ call' = [name |-> "auth", expired |-> expired]
    /\ UNCHANGED <<credentials, fetchVars, batchVars, group_batch, remote, pc,
                   nops, fails, prevList, listPair>>

auth ==
    \E expired \in BOOLEAN : authRejected(expired) \/ \E built \in 0..2 : authBind(built, expired)

(***************************************************************************)
(* dict helpers                                                            *)
(***************************************************************************)
\* d[k] = v
Put(d, k, v) == [x \in (DOMAIN d) \cup {k} |-> IF x = k THEN v ELSE d[x]]

\* d.update(r)
Update(d, r) == [k \in (DOMAIN d) \cup (DOMAIN r) |-> IF k \in DOMAIN r THEN r[k] ELSE d[k]]

\* key order of a dict after d[k] = v: a new key goes last
PutKey(keys, k) == IF \E i \in 1..Len(keys) : keys[i] = k THEN keys ELSE Append(keys, k)

RECURSIVE Flatten(_)
Flatten(ss) == IF ss = << >> THEN << >> ELSE Head(ss) \o Flatten(Tail(ss))

\* A request: its request_id, the group it asks for and the
\* page token it carries (0: none).
Request(rid, groupKey, token) == [rid |-> rid, groupKey |-> groupKey, token |-> token]

\* What the callback of a sub-request received.
Outcome(req, ok, resp) == [req |-> req, ok |-> ok, resp |-> resp]

(***************************************************************************)
(* get_groups                                                              *)
(***************************************************************************)
\* get_groups that files a group whose key is taken under its email as spelled
RECURSIVE store_groups_dup(_, _)
store_groups_dup(d, listed) ==
    IF listed = << >> THEN d
    ELSE store_groups_dup(
             Put(d, IF lower(Head(listed).email) \in DOMAIN d
                    THEN Head(listed).email ELSE lower(Head(listed).email),
                 Head(listed)),
             Tail(listed))

\* a get_groups that keeps the first object listed under a key (setdefault)
RECURSIVE store_groups_first(_, _)
store_groups_first(d, listed) ==
    IF listed = << >> THEN d
    ELSE store_groups_first(
             IF lower(Head(listed).email) \in DOMAIN d THEN d
             ELSE Put(d, lower(Head(listed).email), Head(listed)),
             Tail(listed))

\* a get_groups that updates an existing record with the listed fields
RECURSIVE store_groups_merge(_, _)
store_groups_merge(d, listed) ==
    IF listed = << >> THEN d
    ELSE store_groups_merge(
             Put(d, lower(Head(listed).email),
                 Update(IF lower(Head(listed).email) \in DOMAIN d
                        THEN d[lower(Head(listed).email)] ELSE << >>,
                        Head(listed))),
             Tail(listed))

\* for group in groups['groups']: self.groups[group['email'].lower()] = group
RECURSIVE store_groups(_, _)
store_groups(d, listed) ==
    IF listed = << >> THEN d
    ELSE store_groups(Put(d, lower(Head(listed).email), Head(listed)), Tail(listed))

\* key order of a get_groups that keeps the emails as spelled
RECURSIVE store_keys_raw(_, _)
store_keys_raw(keys, listed) ==
    IF listed = << >> THEN keys
    ELSE store_keys_raw(PutKey(keys, Head(listed).email), Tail(listed))

RECURSIVE store_keys(_, _)
store_keys(keys, listed) ==
    IF listed = << >> THEN keys
    ELSE store_keys(PutKey(keys, lower(Head(listed).email)), Tail(listed))

\* get_groups when check_auth raises
get_groupsRejected ==
    /\ pc = "idle"
    /\ check_auth(http_auth, service, gsetservice) # ""
    /\ error' = check_auth(http_auth, service, gsetservice)
    /\ call' = Call("get_groups")
    /\ UNCHANGED <<credentials, sessionVars, fetchVars, batchVars, group_batch,
                   remote, pc, nops, fails, prevList, listPair>>

\* get_groups: every page of the listing, in order
get_groups ==
    /\ pc = "idle"
    /\ nops < MaxOps
    /\ op' = "get_groups"
    /\ check_auth(http_auth, service, gsetservice) = ""
    /\ groups' = store_groups(groups, Flatten(remote))
    /\ groupKeys' = store_keys(groupKeys, Flatten(remote))
    /\ error' = ""
    /\ nops' = nops + 1
    /\ startGroups' = groups
    /\ runs' = IF \A k \in DOMAIN groups' : "members" \notin DOMAIN groups'[k] THEN 0 ELSE -1
    /\ issued' = [i \in 1..Len(remote) |-> Request(<< >>, << >>, i - 1)]
    /\ handled' = << >>
    /\ prevList' = <<groups'>>
    /\ listPair' = IF prevList # << >> THEN <<prevList[1], groups'>> ELSE << >>
    /\ call' = Call("get_groups")
    /\ UNCHANGED <<credentials, sessionVars, batchVars, group_batch, group_batches,
                   next_batch, remote, pc, batches, bi, inflight, depth, fails>>

\* The domain's groups change between two operations.
RemoteChange ==
    /\ pc = "idle"
    /\ \E l \in Listings \ {remote} : remote' = l
    /\ prevList' = << >>
    /\ listPair' = << >>
    /\ UNCHANGED <<call, credentials, sessionVars, fetchVars, batchVars, group_batch,
                   pc, error, nops, fails>>

(***************************************************************************)
(* group_batches                                                           *)
(***************************************************************************)
\* The value the property returns (and stores in _group_batches): the test
\* reads _group_batch, the store writes _group_batches.
group_batches_read(cacheTest, cached, keys) ==
    IF cacheTest = None THEN batch(keys) ELSE cached[1]

(***************************************************************************)
(* get_settings                                                            *)
(***************************************************************************)
\* get_settings when check_auth raises
get_settingsRejected ==
    /\ pc = "idle"
    /\ check_auth(http_auth, service, gsetservice) # ""
    /\ error' = check_auth(http_auth, service, gsetservice)
    /\ call' = Call("get_settings")
    /\ UNCHANGED <<credentials, sessionVars, fetchVars, batchVars, group_batch,
                   remote, pc, nops, fails, prevList, listPair>>

\* get_settings up to its for loop: check_auth, then self.group_batches
get_settings ==
    /\ pc = "idle"
    /\ nops < MaxOps
    /\ op' = "get_settings"
    /\ check_auth(http_auth, service, gsetservice) = ""
    /\ group_batches' = <<group_batches_read(group_batch, group_batches, groupKeys)>>
    /\ batches' = group_batches'[1]
    /\ bi' = 1
    /\ pc' = "settings"
    /\ error' = ""
    /\ nops' = nops + 1
    /\ startGroups' = groups
    /\ runs' = runs
    /\ issued' = << >>
    /\ handled' = << >>
    /\ prevList' = << >>
    /\ listPair' = << >>
    /\ call' = Call("get_settings")
    /\ UNCHANGED <<credentials, sessionVars, batchVars, groups, groupKeys,
                   group_batch, next_batch, remote, inflight, depth, fails>>

\* One turn of the for loop: build the batch request and execute() it.  The
\* library numbers the sub-requests; add_settings never reads the number.
settingsRequests(b) == [i \in 1..Len(b) |-> Request(i, b[i], 0)]

execute_settings ==
    /\ pc = "settings"
    /\ inflight = {}
    /\ bi <= Len(batches)
    /\ inflight' = {settingsRequests(batches[bi])[i] : i \in 1..Len(batches[bi])}
    /\ issued' = issued \o settingsRequests(batches[bi])
    /\ bi' = bi + 1
    /\ UNCHANGED <<call, credentials, op, sessionVars, batchVars, groups, groupKeys,
                   group_batch, group_batches, next_batch, remote, pc, batches,
                   depth, error, nops, fails, handled, startGroups, runs, prevList,
                   listPair>>

\* add_settings that lets the sub-request's exception leave the callback
add_settingsException_raise(r) ==
    /\ pc = "settings"
    /\ r \in inflight
    /\ fails < MaxFail
    /\ fails' = fails + 1
    /\ inflight' = {}
    /\ handled' = Append(handled, Outcome(r, FALSE, << >>))
    /\ pc' = "idle"
    /\ error' = "HttpError"
    /\ UNCHANGED <<call, credentials, op, sessionVars, batchVars, groups, groupKeys,
                   group_batch, group_batches, next_batch, remote, batches,
                   bi, depth, nops, issued, startGroups, runs, prevList, listPair>>

\* add_settings with exception is not None: warn and return
add_settingsException(r) ==
    /\ pc = "settings"
    /\ r \in inflight
    /\ fails < MaxFail
    /\ fails' = fails + 1
    /\ inflight' = inflight \ {r}
    /\ handled' = Append(handled, Outcome(r, FALSE, << >>))
    /\ UNCHANGED <<call, credentials, op, sessionVars, batchVars, groups, groupKeys,
                   group_batch, group_batches, next_batch, remote, pc, batches,
                   bi, depth, error, nops, issued, startGroups, runs, prevList,
                   listPair>>

\* add_settings that files the response under the email as spelled
merge_settings_raw(d, response) ==
    Put(d, response.email,
        Update(IF response.email \in DOMAIN d THEN d[response.email] ELSE << >>, response))

\* add_settings that replaces the map by the one record it merged into
merge_settings_only(d, response) ==
    [k \in {lower(response.email)} |-> Update(d[k], response)]

\* self.groups[response['email'].lower()].update(response)
merge_settings(d, response) ==
    [d EXCEPT ![lower(response.email)] = Update(@, response)]

\* add_settings with a response
add_settings(r, response) ==
    /\ pc = "settings"
    /\ r \in inflight
    /\ handled' = Append(handled, Outcome(r, TRUE, response))
    /\ IF lower(response.email) \in DOMAIN groups
       THEN /\ groups' = merge_settings(groups, response)
            /\ inflight' = inflight \ {r}
            /\ UNCHANGED <<pc, error>>
       ELSE \* KeyError leaves the callback, execute() and get_settings
            /\ groups' = groups
            /\ inflight' = {}
            /\ pc' = "idle"
            /\ error' = "KeyError"
    /\ UNCHANGED <<call, credentials, op, sessionVars, batchVars, groupKeys, group_batch,
                   group_batches, next_batch, remote, batches, bi, depth, nops,
                   fails, issued, startGroups, runs, prevList, listPair>>

\* The for loop is exhausted: get_settings returns.
get_settingsReturn ==
    /\ pc = "settings"
    /\ inflight = {}
    /\ bi > Len(batches)
    /\ pc' = "idle"
    /\ UNCHANGED <<call, credentials, op, sessionVars, batchVars, groups, groupKeys,
                   group_batch, group_batches, next_batch, remote, batches, bi,
                   inflight, depth, error, nops, fails, issued, handled,
                   startGroups, runs, prevList, listPair>>

(***************************************************************************)
(* get_members                                                             *)
(***************************************************************************)
\* get_members when check_auth raises
get_membersRejected ==
    /\ pc = "idle"
    /\ check_auth(http_auth, service, gsetservice) # ""
    /\ error' = check_auth(http_auth, service, gsetservice)
    /\ call' = Call("get_members")
    /\ UNCHANGED <<credentials, sessionVars, fetchVars, batchVars, group_batch,
                   remote, pc, nops, fails, prevList, listPair>>

\* get_members that starts by dropping the members of every record
get_members_reset ==
    /\ pc = "idle"
    /\ nops < MaxOps
    /\ op' = "get_members"
    /\ check_auth(http_auth, service, gsetservice) = ""
    /\ next_batch' = << >>
    /\ groups' = [k \in DOMAIN groups |->
                     [f \in DOMAIN groups[k] \ {"members"} |-> groups[k][f]]]
    /\ group_batches' = <<group_batches_read(group_batch, group_batches, groupKeys)>>
    /\ batches' = group_batches'[1]
    /\ bi' = 1
    /\ pc' = "members"
    /\ error' = ""
    /\ nops' = nops + 1
    /\ startGroups' = groups
    /\ runs' = runs
    /\ issued' = << >>
    /\ handled' = << >>
    /\ prevList' = << >>
    /\ listPair' = << >>
    /\ call' = Call("get_members")
    /\ UNCHANGED <<credentials, sessionVars, batchVars, groupKeys,
                   group_batch, remote, inflight, depth, fails>>

\* get_members up to its for loop: check_auth, _next_batch = [], group_batches
get_members ==
    /\ pc = "idle"
    /\ nops < MaxOps
    /\ op' = "get_members"
    /\ check_auth(http_auth, service, gsetservice) = ""
    /\ next_batch' = << >>
    /\ group_batches' = <<group_batches_read(group_batch, group_batches, groupKeys)>>
    /\ batches' = group_batches'[1]
    /\ bi' = 1
    /\ pc' = "members"
    /\ error' = ""
    /\ nops' = nops + 1
    /\ startGroups' = groups
    /\ runs' = runs
    /\ issued' = << >>
    /\ handled' = << >>
    /\ prevList' = << >>
    /\ listPair' = << >>
    /\ call' = Call("get_members")
    /\ UNCHANGED <<credentials, sessionVars, batchVars, groups, groupKeys,
                   group_batch, remote, inflight, depth, fails>>

\* First pass: members().list(groupKey=group) with request_id=group.lower()
membersRequests(b) == [i \in 1..Len(b) |-> Request(lower(b[i]), b[i], 0)]

\* a first pass whose execute() does not wait for the callbacks
execute_members_async ==
    /\ pc = "members"
    /\ bi <= Len(batches)
    /\ inflight' = inflight \cup
                       {membersRequests(batches[bi])[i] : i \in 1..Len(batches[bi])}
    /\ issued' = issued \o membersRequests(batches[bi])
    /\ bi' = bi + 1
    /\ UNCHANGED <<call, credentials, op, sessionVars, batchVars, groups, groupKeys,
                   group_batch, group_batches, next_batch, remote, pc, batches,
                   depth, error, nops, fails, handled, startGroups, runs, prevList,
                   listPair>>

execute_members ==
    /\ pc = "members"
    /\ inflight = {}
    /\ bi <= Len(batches)
    /\ inflight' = {membersRequests(batches[bi])[i] : i \in 1..Len(batches[bi])}
    /\ issued' = issued \o membersRequests(batches[bi])
    /\ bi' = bi + 1
    /\ UNCHANGED <<call, credentials, op, sessionVars, batchVars, groups, groupKeys,
                   group_batch, group_batches, next_batch, remote, pc, batches,
                   depth, error, nops, fails, handled, startGroups, runs, prevList,
                   listPair>>

\* Continuation pass: batchreq.add(req[1], request_id=req[0])
execute_next ==
    /\ pc = "next"
    /\ inflight = {}
    /\ bi <= Len(batches)
    /\ inflight' = {batches[bi][i] : i \in 1..Len(batches[bi])}
    /\ issued' = issued \o batches[bi]
    /\ bi' = bi + 1
    /\ UNCHANGED <<call, credentials, op, sessionVars, batchVars, groups, groupKeys,
                   group_batch, group_batches, next_batch, remote, pc, batches,
                   depth, error, nops, fails, handled, startGroups, runs, prevList,
                   listPair>>

\* add_members that queues the failed sub-request again
add_membersException_retry(r) ==
    /\ pc \in {"members", "next"}
    /\ r \in inflight
    /\ fails < MaxFail
    /\ fails' = fails + 1
    /\ inflight' = inflight \ {r}
    /\ handled' = Append(handled, Outcome(r, FALSE, << >>))
    /\ next_batch' = Append(next_batch, r)
    /\ UNCHANGED <<call, credentials, op, sessionVars, batchVars, groups, groupKeys,
                   group_batch, group_batches, remote, pc, batches,
                   bi, depth, error, nops, issued, startGroups, runs, prevList,
                   listPair>>

\* add_members with exception is not None: warn and return
add_membersException(r) ==
    /\ pc \in {"members", "next"}
    /\ r \in inflight
    /\ fails < MaxFail
    /\ fails' = fails + 1
    /\ inflight' = inflight \ {r}
    /\ handled' = Append(handled, Outcome(r, FALSE, << >>))
    /\ UNCHANGED <<call, credentials, op, sessionVars, batchVars, groups, groupKeys,
                   group_batch, group_batches, next_batch, remote, pc, batches,
                   bi, depth, error, nops, issued, startGroups, runs, prevList,
                   listPair>>

\* response.get('members', [])
get_members_field(response) ==
    IF "members" \in DOMAIN response THEN response.members ELSE << >>

\* add_members that touches the record only when the page has members
merge_members_skipEmpty(d, request_id, response) ==
    IF "members" \in DOMAIN response
    THEN [d EXCEPT ![request_id] =
            Update(@, [members |-> (IF "members" \in DOMAIN @ THEN @.members ELSE << >>)
                                   \o response.members])]
    ELSE d

\* email = self.groups[request_id]; create 'members' if absent; += the page
merge_members(d, request_id, response) ==
    LET email == d[request_id]
        had   == IF "members" \in DOMAIN email THEN email.members ELSE << >>
    IN  [d EXCEPT ![request_id] =
            Update(email, [members |-> had \o get_members_field(response)])]

\* add_members that queues the next page twice
next_page_twice(pending, request_id, response) ==
    IF "nextPageToken" \in DOMAIN response
    THEN pending \o << Request(request_id, request_id, response.nextPageToken),
                       Request(request_id, request_id, response.nextPageToken) >>
    ELSE pending

\* The (request_id, request) tuples the response adds to _next_batch
next_page(pending, request_id, response) ==
    IF "nextPageToken" \in DOMAIN response
    THEN Append(pending, Request(request_id, request_id, response.nextPageToken))
    ELSE pending

\* add_members with a response
add_members(r, response) ==
    /\ pc \in {"members", "next"}
    /\ r \in inflight
    /\ handled' = Append(handled, Outcome(r, TRUE, response))
    /\ IF r.rid \in DOMAIN groups
       THEN /\ groups' = merge_members(groups, r.rid, response)
            /\ next_batch' = next_page(next_batch, r.rid, response)
            /\ inflight' = inflight \ {r}
            /\ UNCHANGED <<pc, error, depth, runs>>
       ELSE \* KeyError leaves the callback, execute() and get_members
            /\ groups' = groups
            /\ next_batch' = next_batch
            /\ inflight' = {}
            /\ pc' = "idle"
            /\ depth' = 0
            /\ error' = "KeyError"
            /\ runs' = -1
    /\ UNCHANGED <<call, credentials, op, sessionVars, batchVars, groupKeys, group_batch,
                   group_batches, remote, batches, bi, nops, fails, issued,
                   startGroups, prevList, listPair>>

\* run_next_batch without its closing call of itself: after one continuation
\* pass it returns, whatever is pending
run_next_batch_once ==
    /\ pc \in {"members", "next"}
    /\ inflight = {}
    /\ bi > Len(batches)
    /\ Len(next_batch) # 0
    /\ IF pc = "members"
       THEN /\ batches' = batch(next_batch)
            /\ next_batch' = << >>
            /\ bi' = 1
            /\ pc' = "next"
            /\ depth' = depth + 1
       ELSE /\ pc' = "idle"
            /\ depth' = 0
            /\ UNCHANGED <<batches, next_batch, bi>>
    /\ UNCHANGED <<call, credentials, op, sessionVars, batchVars, groups, groupKeys,
                   group_batch, group_batches, remote, inflight, error, nops,
                   fails, issued, handled, startGroups, runs, prevList, listPair>>

\* A for loop of get_members is exhausted and run_next_batch is called with
\* pending pages: it takes them as its working batch and starts its own loop.
run_next_batch ==
    /\ pc \in {"members", "next"}
    /\ inflight = {}
    /\ bi > Len(batches)
    /\ Len(next_batch) # 0
    /\ batches' = batch(next_batch)
    /\ next_batch' = << >>
    /\ bi' = 1
    /\ pc' = "next"
    /\ depth' = depth + 1
    /\ UNCHANGED <<call, credentials, op, sessionVars, batchVars, groups, groupKeys,
                   group_batch, group_batches, remote, inflight, error, nops,
                   fails, issued, handled, startGroups, runs, prevList, listPair>>

\* run_next_batch is called with nothing pending: it returns, and so does
\* every invocation below it, and get_members.
run_next_batchReturn ==
    /\ pc \in {"members", "next"}
    /\ inflight = {}
    /\ bi > Len(batches)
    /\ Len(next_batch) = 0
    /\ pc' = "idle"
    /\ depth' = 0
    /\ runs' = IF runs >= 0 /\ (\A i \in 1..Len(handled) : handled[i].ok)
               THEN runs + 1 ELSE -1
    /\ UNCHANGED <<call, credentials, op, sessionVars, batchVars, groups, groupKeys,
                   group_batch, group_batches, next_batch, remote, batches, bi,
                   inflight, error, nops, fails, issued, handled, startGroups,
                   prevList, listPair>>

(***************************************************************************)
(* The session                                                             *)
(***************************************************************************)
Next ==
    \/ first_auth
    \/ load
    \/ save
    \/ auth
    \/ get_groupsRejected
    \/ get_groups
    \/ RemoteChange
    \/ get_settingsRejected
    \/ get_settings
    \/ execute_settings
    \/ \E r \in inflight : add_settingsException(r)
    \/ \E r \in inflight : \E e \in SettingsEmails(r.groupKey) :
           add_settings(r, SettingsResponse(e, r.groupKey))
    \/ get_settingsReturn
    \/ get_membersRejected
    \/ get_members
    \/ execute_members
    \/ execute_next
    \/ \E r \in inflight : add_membersException(r)
    \/ \E r \in inflight : add_members(r, MembersResponse(r.groupKey, r.token))
    \/ run_next_batch
    \/ run_next_batchReturn

Spec == Init /\ [][Next]_vars

(***************************************************************************)
(* get_members on its own: runs of get_members on an established session   *)
(* whose groups have been listed, each run carried through by the          *)
(* sequential program once it is invoked.                                  *)
(***************************************************************************)
\* The state after first_auth, auth and one get_groups.
InitListed ==
    /\ credentials = [present |-> TRUE, invalid |-> FALSE]
    /\ http_auth = "bound"
    /\ service = "bound"
    /\ gsetservice = "bound"
    /\ remote \in Listings
    /\ groups = store_groups(<< >>, Flatten(remote))
    /\ groupKeys = store_keys(<< >>, Flatten(remote))
    /\ group_batch = None
    /\ group_batches = << >>
    /\ next_batch = << >>
    /\ pc = "idle"
    /\ op = "get_groups"
    /\ call = Call("get_groups")
    /\ batches = << >>
    /\ bi = 1
    /\ inflight = {}
    /\ depth = 0
    /\ error = ""
    /\ nops = 1
    /\ fails = 0
    /\ issued = [i \in 1..Len(remote) |-> Request(<< >>, << >>, i - 1)]
    /\ handled = << >>
    /\ startGroups = << >>
    /\ runs = 0
    /\ prevList = <<groups>>
    /\ listPair = << >>
    /\ items = << >>
    /\ result = << >>

\* The steps of a get_members that has been invoked.
MembersRun ==
    \/ execute_members
    \/ execute_next
    \/ \E r \in inflight : add_membersException(r)
    \/ \E r \in inflight : add_members(r, MembersResponse(r.groupKey, r.token))
    \/ run_next_batch
    \/ run_next_batchReturn

NextMembers == get_members \/ MembersRun

\* execute() blocks until every callback has run and the program goes on:
\* a started get_members keeps taking its steps.
SpecMembers == InitListed /\ [][NextMembers]_vars /\ WF_vars(MembersRun)

(***************************************************************************)
(* batch() on its own: one call on an input of any length up to MaxLen     *)
(***************************************************************************)
\* Inputs with distinct items and inputs with repeated items.
Inputs ==
    {[i \in 1..n |-> i] : n \in 0..MaxLen} \cup {[i \in 1..n |-> i % 3] : n \in 0..MaxLen}

InitBatch ==
    /\ credentials = NoCredentials
    /\ http_auth = None
    /\ service = None
    /\ gsetservice = None
    /\ groups = << >>
    /\ groupKeys = << >>
    /\ group_batch = None
    /\ group_batches = << >>
    /\ next_batch = << >>
    /\ remote = << >>
    /\ pc = "idle"
    /\ op = "none"
    /\ call = Call("none")
    /\ batches = << >>
    /\ bi = 1
    /\ inflight = {}
    /\ depth = 0
    /\ error = ""
    /\ nops = 0
    /\ fails = 0
    /\ issued = << >>
    /\ handled = << >>
    /\ startGroups = << >>
    /\ runs = 0
    /\ prevList = << >>
    /\ listPair = << >>
    /\ items \in Inputs
    /\ result = << >>

\* self.batch(items)
batch_call ==
    /\ result = << >>
    /\ result' = <<batchSized(items, Thousand)>>
    /\ UNCHANGED <<call, credentials, sessionVars, fetchVars, group_batch, remote, pc,
                   error, nops, fails, prevList, listPair, items>>

NextBatch == batch_call

SpecBatch == InitBatch /\ [][NextBatch]_vars

(***************************************************************************)
(* Properties of batch()                                                   *)
(***************************************************************************)
\* C1: concatenating the batches batch(items) returns, in order, gives back
\* exactly the input sequence (nothing lost, duplicated or reordered), the
\* empty input included.
C1_BatchConcat ==
    result # << >> => Flatten(result[1]) = items

\* A call on an input that needs three batches has returned.
C1_Witness ==
    /\ result # << >>
    /\ Len(items) = 2 * Thousand + 1
    /\ Len(result[1]) = 3

\* C2: batch(items) returns exactly ceil(n/1000) batches for an input of
\* length n, each non-empty and of at most 1000 items: none for the empty
\* input, and no empty trailing batch on an exact multiple of 1000.
C2_BatchCount ==
    result # << >> =>
        LET n == Len(items)
            c == Len(result[1])
        IN  /\ c * Thousand >= n
            /\ (c = 0 \/ (c - 1) * Thousand < n)
            /\ (n = 0 => c = 0)
            /\ \A i \in 1..c : Len(result[1][i]) >= 1 /\ Len(result[1][i]) <= Thousand

\* A call on an input of exactly two full batches has returned.
C2_Witness ==
    /\ result # << >>
    /\ Len(items) = 2 * Thousand
    /\ Len(result[1]) = 2
    /\ Len(result[1][2]) = Thousand

(***************************************************************************)
(* Properties of the session                                               *)
(***************************************************************************)
\* C3: group_batches is computed once and cached: once the property has been
\* read, every later read returns (and leaves stored) the same batches, so
\* groups listed afterwards reach no batch of a later fetch.
C3_CachedOnce ==
    [][group_batches # << >> => group_batches' = group_batches]_vars

\* C4: when a run of get_members in which every sub-request succeeded
\* returns, having started from records without a members field, every
\* group's members field exists and is the concatenation of the group's
\* member pages in page order; it is the empty sequence, not absent, for a
\* group whose pages are all empty.
C4_MembersInPageOrder ==
    ( /\ pc = "idle" /\ op = "get_members" /\ error = ""
      /\ \A i \in 1..Len(handled) : handled[i].ok
      /\ \A k \in DOMAIN startGroups : "members" \notin DOMAIN startGroups[k] )
    => \A k \in DOMAIN groups :
          /\ "members" \in DOMAIN groups[k]
          /\ groups[k].members = Flatten(MemberPages(k))

\* Such a run has returned for a two-page group, a group with one empty page
\* and a three-page group.
C4_Witness ==
    /\ pc = "idle" /\ op = "get_members" /\ error = ""
    /\ \A i \in 1..Len(handled) : handled[i].ok
    /\ \A k \in DOMAIN startGroups : "members" \notin DOMAIN startGroups[k]
    /\ DOMAIN groups = {ax, bx, cx}
    /\ Len(groups[ax].members) = 5
    /\ groups[bx].members = << >>
    /\ groups[cx].members = <<6, 7>>

\* The sub-requests the current operation issued for group k / with token t
IssuedFor(k) == {i \in 1..Len(issued) : issued[i].rid = k}
IssuedWith(k, t) == {i \in IssuedFor(k) : issued[i].token = t}
\* No sub-request of group k reported an error in the current operation.
AllOkFor(k) == \A i \in 1..Len(handled) : handled[i].req.rid = k => handled[i].ok

\* C5: when a run of get_members returns, a group with N member pages whose
\* sub-requests all succeeded was asked for exactly N times, once without a
\* token and once with each of its N-1 continuation tokens, and _next_batch
\* holds no request for it.
C5_ExactlyNRequests ==
    (pc = "idle" /\ op = "get_members" /\ error = "")
    => \A k \in DOMAIN groups : AllOkFor(k) =>
          LET N == Len(MemberPages(k))
          IN  /\ Cardinality(IssuedFor(k)) = N
              /\ \A t \in 0..(N - 1) : Cardinality(IssuedWith(k, t)) = 1
              /\ \A i \in 1..Len(next_batch) : next_batch[i].rid # k

\* A run has returned after asking three times for the three-page group.
C5_Witness ==
    /\ pc = "idle" /\ op = "get_members" /\ error = ""
    /\ cx \in DOMAIN groups
    /\ AllOkFor(cx)
    /\ Cardinality(IssuedFor(cx)) = 3
    /\ depth = 0

\* The members the successful sub-responses of group k delivered, in the
\* order they were handled.
RECURSIVE MembersGot(_, _)
MembersGot(log, k) ==
    IF log = << >> THEN << >>
    ELSE (IF Head(log).ok /\ Head(log).req.rid = k
          THEN get_members_field(Head(log).resp) ELSE << >>) \o MembersGot(Tail(log), k)

MembersAtStart(k) ==
    IF "members" \in DOMAIN startGroups[k] THEN startGroups[k].members ELSE << >>

\* A step in which a callback receives the exception of sub-request r.
ExceptionStep(r) == r \in inflight /\ handled' = Append(handled, Outcome(r, FALSE, << >>))

\* A step in which a fetch returns normally.
FetchReturns == pc # "idle" /\ pc' = "idle" /\ error' = ""

\* Every group of group_batches was asked for and every sub-request issued was handled.
AllBatchesDone ==
    /\ Len(handled) = Len(issued)
    /\ \A b \in 1..Len(group_batches[1]) : \A j \in 1..Len(group_batches[1][b]) :
          \E i \in 1..Len(issued) : issued[i].groupKey = group_batches[1][b][j]

\* Every successful settings response is in its record, every record whose
\* sub-request failed is as it was when get_settings started.
SettingsMerged ==
    \A i \in 1..Len(handled) :
        IF handled[i].ok
        THEN \A f \in DOMAIN handled[i].resp :
                groups[lower(handled[i].resp.email)][f] = handled[i].resp[f]
        ELSE groups[handled[i].req.groupKey] = startGroups[handled[i].req.groupKey]

\* Every record holds the pages its successful sub-requests delivered, and a
\* record none of whose sub-requests succeeded is as it was at the start.
MembersMerged ==
    \A k \in DOMAIN groups :
        IF \E i \in 1..Len(handled) : handled[i].ok /\ handled[i].req.rid = k
        THEN groups[k].members = MembersAtStart(k) \o MembersGot(handled, k)
        ELSE groups[k] = startGroups[k]

\* C6: per-item errors are isolated in get_settings and get_members: a
\* sub-response carrying an exception changes no record, does not end the
\* operation and leaves the other sub-requests of its batch and the remaining
\* batches to be processed; and when the operation returns, every batch was
\* executed, every successful sub-response is merged into its record and the
\* records of the failing ones are unchanged.
C6_ErrorIsolation ==
    [][ /\ \A r \in inflight : ExceptionStep(r) =>
              /\ groups' = groups
              /\ pc' = pc /\ error' = error
              /\ inflight' = inflight \ {r}
              /\ batches' = batches /\ bi' = bi /\ next_batch' = next_batch
        /\ FetchReturns =>
              /\ AllBatchesDone'
              /\ (op = "get_settings" => SettingsMerged')
              /\ (op = "get_members" => MembersMerged') ]_vars

\* get_settings has returned normally after a batch of two in which the
\* first sub-response handled was an exception and the second was merged.
C6_Witness ==
    /\ pc = "idle" /\ op = "get_settings" /\ error = ""
    /\ Len(handled) = 3
    /\ ~handled[1].ok /\ handled[2].ok /\ handled[3].ok
    /\ "whoCanJoin" \in DOMAIN groups[handled[2].req.groupKey]
    /\ "whoCanJoin" \notin DOMAIN groups[handled[1].req.groupKey]

\* A step in which add_settings receives a response.
SettingsResponseStep ==
    /\ pc = "settings"
    /\ Len(handled') = Len(handled) + 1
    /\ handled'[Len(handled')].ok

\* C7: a successful settings sub-response whose lowercased email is a key of
\* self.groups leaves the record under that key with every field of the
\* response at the response's value and its other fields as they were, and
\* changes or creates no other record or key.
C7_SettingsMergeExact ==
    [][ SettingsResponseStep =>
          LET response == handled'[Len(handled')].resp
              key      == lower(response.email)
          IN  key \in DOMAIN groups =>
                /\ DOMAIN groups' = DOMAIN groups
                /\ \A k \in DOMAIN groups \ {key} : groups'[k] = groups[k]
                /\ DOMAIN groups'[key] = (DOMAIN groups[key]) \cup (DOMAIN response)
                /\ \A f \in DOMAIN response : groups'[key][f] = response[f]
                /\ \A f \in (DOMAIN groups[key]) \ (DOMAIN response) :
                      groups'[key][f] = groups[key][f] ]_vars

\* The record listed as "ax" has just been merged with a response spelled "Ax".
C7_Witness ==
    /\ op = "get_settings"
    /\ handled # << >>
    /\ handled[Len(handled)].ok
    /\ handled[Len(handled)].resp.email = Ax
    /\ DOMAIN groups = {ax, bx}
    /\ startGroups[ax].email = ax
    /\ groups[ax].email = Ax
    /\ groups[ax].id = 4
    /\ groups[ax].whoCanJoin = "ALL"

\* C8: get_groups is idempotent on an unchanged listing: after two calls in a
\* row self.groups has the same keys and the same records as after the first
\* of the two; the second call overwrites, it adds no entry.
C8_ListIdempotent ==
    listPair # << >> =>
        /\ DOMAIN listPair[2] = DOMAIN listPair[1]
        /\ \A k \in DOMAIN listPair[1] : listPair[2][k] = listPair[1][k]

\* get_groups has run twice in a row on the listing that spells one group
\* both "Ax" and "ax".
C8_Witness ==
    /\ listPair # << >>
    /\ op = "get_groups" /\ error = ""
    /\ DOMAIN groups = {ax, bx}
    /\ groups[ax].email = ax
    /\ groups = listPair[2]

\* A step in which get_groups, get_settings or get_members is invoked.
DataCallStep ==
    /\ pc = "idle"
    /\ call'.name \in {"get_groups", "get_settings", "get_members"}
    /\ remote' = remote

\* C9: a data operation (get_groups, get_settings, get_members) invoked while
\* the transport, the directory service or the settings service is unset
\* raises the error naming the first missing piece, issues no request, starts
\* no batch and leaves self.groups as it was, whatever ran before.
C9_SessionRequired ==
    [][ (DataCallStep /\ (http_auth = None \/ service = None \/ gsetservice = None)) =>
          /\ error' = (IF http_auth = None THEN "HTTP Auth not completed."
                       ELSE IF service = None THEN "Admin SDK service is not available."
                       ELSE "Groups Settings service is not available.")
          /\ groups' = groups /\ groupKeys' = groupKeys
          /\ issued' = issued /\ inflight' = inflight /\ next_batch' = next_batch
          /\ pc' = "idle" /\ op' = op /\ nops' = nops ]_vars

\* A data operation was refused after an auth() that bound the transport and
\* the directory service only.
C9_Witness ==
    /\ call.name = "get_members"
    /\ http_auth # None /\ service # None /\ gsetservice = None
    /\ error = "Groups Settings service is not available."
    /\ op = "none"

\* A step in which auth() is invoked.
AuthStep == pc = "idle" /\ call'.name = "auth" /\ remote' = remote

\* C10 as claimed: auth() binds the transport and the two service handles
\* only when the credentials are present, valid and not expired, and with
\* absent or invalid credentials it fails and leaves the three as they were.
C10_AuthRequiresFresh ==
    [][ /\ (AuthStep /\ error' = "") =>
              /\ http_auth' # None /\ service' # None /\ gsetservice' # None
              /\ credentials.present /\ ~credentials.invalid /\ ~call'.expired
        /\ (AuthStep /\ (~credentials.present \/ credentials.invalid)) =>
              (error' # "" /\ sessionVars' = sessionVars) ]_vars

\* C10, amended: auth() binds the transport and the two service handles only
\* when the credentials are present and not invalid, whether or not they are
\* expired (an auth() that returns has bound all three); with absent or
\* invalid credentials it raises the matching error and leaves the three as
\* they were.
C10_AuthRequiresValid ==
    [][ /\ (sessionVars' # sessionVars) => (credentials.present /\ ~credentials.invalid)
        /\ (AuthStep /\ error' = "") =>
              (http_auth' # None /\ service' # None /\ gsetservice' # None)
        /\ (AuthStep /\ ~credentials.present) =>
              (error' = "Credentials not found." /\ sessionVars' = sessionVars)
        /\ (AuthStep /\ credentials.present /\ credentials.invalid) =>
              (error' = "Credentials are invalid." /\ sessionVars' = sessionVars) ]_vars

\* auth() was refused with invalid credentials after an earlier auth() had
\* bound the transport and the directory service.
C10_Witness ==
    /\ call.name = "auth"
    /\ credentials.present /\ credentials.invalid
    /\ error = "Credentials are invalid."
    /\ http_auth # None /\ service # None /\ gsetservice = None

\* The group identifiers of _group_batches as last stored.
StoredBatchGroups ==
    IF group_batches = << >> THEN {}
    ELSE UNION {{group_batches[1][b][j] : j \in 1..Len(group_batches[1][b])} :
                    b \in 1..Len(group_batches[1])}

\* C11: every group identifier of a batch handed to get_settings or
\* get_members (as stored, as iterated and as in flight), and the group
\* identifier of every pending page request, is a key of self.groups.
C11_BatchedAreKeys ==
    /\ StoredBatchGroups \subseteq DOMAIN groups
    /\ pc \in {"settings", "members"} =>
          \A b \in 1..Len(batches) : \A j \in 1..Len(batches[b]) :
              batches[b][j] \in DOMAIN groups
    /\ pc = "next" =>
          \A b \in 1..Len(batches) : \A j \in 1..Len(batches[b]) :
              batches[b][j].rid \in DOMAIN groups
    /\ pc = "settings" => \A r \in inflight : r.groupKey \in DOMAIN groups
    /\ pc \in {"members", "next"} => \A r \in inflight : r.rid \in DOMAIN groups
    /\ \A i \in 1..Len(next_batch) : next_batch[i].rid \in DOMAIN groups

\* A continuation batch is in flight while a further page is pending.
C11_Witness ==
    /\ pc = "next"
    /\ inflight # {}
    /\ next_batch # << >>
    /\ next_batch[1].rid \in DOMAIN groups

ListedReached ==
    /\ InitListed
    /\ DOMAIN groups = {ax, bx, cx}

\* An accepted get_groups call.
GetGroupsStep == op' = "get_groups" /\ nops' = nops + 1

\* The last object of the listing whose lowercased email is k.
LastListed(listed, k) ==
    listed[CHOOSE i \in 1..Len(listed) :
               /\ lower(listed[i].email) = k
               /\ \A j \in (i + 1)..Len(listed) : lower(listed[j].email) # k]

\* C13: after get_groups the keys of self.groups contain the lowercased email
\* of every group of every page, every key is in lower case, and each listed
\* key maps to the object returned last for it.
C13_ListedKeys ==
    [][GetGroupsStep =>
          LET listed == Flatten(remote) IN
          /\ \A i \in 1..Len(listed) : lower(listed[i].email) \in DOMAIN groups'
          /\ \A k \in DOMAIN groups' : lower(k) = k
          /\ \A i \in 1..Len(listed) :
                groups'[lower(listed[i].email)] =
                    LastListed(listed, lower(listed[i].email))]_vars

\* A two-page listing with two spellings of one email has been stored: the
\* later spelling's object is kept, under the lowercased key.
C13_Witness ==
    /\ op = "get_groups"
    /\ prevList # << >>
    /\ Len(issued) = 2
    /\ \E i, j \in 1..Len(Flatten(remote)) :
          /\ i < j
          /\ Flatten(remote)[i].email # Flatten(remote)[j].email
          /\ lower(Flatten(remote)[i].email) = lower(Flatten(remote)[j].email)
          /\ groups[lower(Flatten(remote)[i].email)] = Flatten(remote)[j]

\* C14: the continuation of member pages is an iteration: during get_members
\* the number of active run_next_batch invocations stays within the constant
\* of a loop, one, however many pages a group has.
C14_DepthBounded == depth <= 1

\* The map and the abort flag after execute() hands one settings response to
\* add_settings: a callback that raises ends execute(), so no later callback
\* of the batch runs.
SettingsCallback(st, response) ==
    IF st.raised THEN st
    ELSE IF lower(response.email) \in DOMAIN st.groups
         THEN [groups |-> merge_settings(st.groups, response), raised |-> FALSE]
         ELSE [groups |-> st.groups, raised |-> TRUE]

\* The same for one members response handed to add_members.
MembersCallback(st, r, response) ==
    IF st.raised THEN st
    ELSE IF r.rid \in DOMAIN st.groups
         THEN [groups |-> merge_members(st.groups, r.rid, response), raised |-> FALSE]
         ELSE [groups |-> st.groups, raised |-> TRUE]

\* C15: the result does not depend on the callback order within a batch: for
\* any two sub-requests in flight and any fixed responses to them, self.groups
\* is the same whichever of the two callbacks fires first (sub-requests that
\* fail leave the map alone in either order).
C15_OrderIndependent ==
    LET st == [groups |-> groups, raised |-> FALSE] IN
    /\ pc = "settings" =>
          \A r1, r2 \in inflight : r1 # r2 =>
             \A e1 \in SettingsEmails(r1.groupKey), e2 \in SettingsEmails(r2.groupKey) :
                LET a == SettingsResponse(e1, r1.groupKey)
                    b == SettingsResponse(e2, r2.groupKey)
                IN  SettingsCallback(SettingsCallback(st, a), b).groups
                        = SettingsCallback(SettingsCallback(st, b), a).groups
    /\ pc \in {"members", "next"} =>
          \A r1, r2 \in inflight : r1 # r2 =>
             LET a == MembersResponse(r1.groupKey, r1.token)
                 b == MembersResponse(r2.groupKey, r2.token)
             IN  MembersCallback(MembersCallback(st, r1, a), r2, b).groups
                     = MembersCallback(MembersCallback(st, r2, b), r1, a).groups

\* A step of get_settings or get_members that issues sub-requests.
IssueStep ==
    /\ pc \in {"settings", "members", "next"}
    /\ Len(issued') > Len(issued)

\* The sub-requests a step issues.
NewlyIssued == SubSeq(issued', Len(issued) + 1, Len(issued'))

\* The sub-request for group k with continuation token t was handled without
\* error.
HandledOk(k, t) ==
    \E i \in 1..Len(handled) :
        /\ handled[i].req.rid = k
        /\ handled[i].req.token = t
        /\ handled[i].ok

\* C16: batches are executed one at a time in partition order: a batch is
\* issued only when nothing is in flight and every sub-response of the
\* batches before it has been handled, it is the next batch of the partition,
\* a continuation request is issued only after every first-pass batch was
\* executed, and the request for page k+1 of a group only after the
\* sub-response carrying its page k has been handled.
C16_OneBatchAtATime ==
    [][IssueStep =>
          /\ inflight = {}
          /\ Len(handled) = Len(issued)
          /\ bi <= Len(batches)
          /\ bi' = bi + 1
          /\ Len(NewlyIssued) = Len(batches[bi])
          /\ \A j \in 1..Len(NewlyIssued) :
                IF pc = "next" THEN NewlyIssued[j] = batches[bi][j]
                ELSE NewlyIssued[j].groupKey = batches[bi][j]
          /\ \A j \in 1..Len(NewlyIssued) :
                NewlyIssued[j].token > 0 =>
                   /\ \A b \in 1..Len(group_batches[1]) :
                         \A i \in 1..Len(group_batches[1][b]) :
                            \E h \in 1..Len(handled) :
                               /\ handled[h].req.groupKey = group_batches[1][b][i]
                               /\ handled[h].req.token = 0
                   /\ HandledOk(NewlyIssued[j].rid, NewlyIssued[j].token - 1)]_vars

\* After a first pass of two batches, the request for a third page is in
\* flight.
C16_Witness ==
    /\ pc = "next"
    /\ Len(group_batches[1]) = 2
    /\ \E r \in inflight : r.token = 2 /\ HandledOk(r.rid, 1)

\* A step of get_settings or get_members, from the call to the return.
FetchStep ==
    \/ pc # "idle"
    \/ pc' # "idle"

\* C17: the key set of self.groups never shrinks, and every step of
\* get_settings and get_members (a successful merge, a skipped failing item, a
\* response for a group that is not in the map) leaves it exactly as it was.
C17_KeysKept ==
    [][/\ DOMAIN groups \subseteq DOMAIN groups'
       /\ FetchStep => DOMAIN groups' = DOMAIN groups]_vars

\* get_settings was left by a response for an unknown group after another
\* response had been merged, and the listed keys are all there.
C17_Witness ==
    /\ pc = "idle" /\ op = "get_settings"
    /\ error = "KeyError"
    /\ Len(handled) >= 2
    /\ \E k \in DOMAIN groups : "whoCanJoin" \in DOMAIN groups[k]
    /\ DOMAIN groups = DOMAIN startGroups
    /\ Cardinality(DOMAIN groups) = 3

\* The sub-requests of get_members that reported an error in the current run.
FailedPages ==
    IF op = "get_members"
    THEN {i \in 1..Len(handled) : ~handled[i].ok}
    ELSE {}

\* Nothing for the page of the failed sub-request h, or for a later page of
\* its group, is issued again or pending.
NotAskedAgain(h) ==
    /\ Cardinality({j \in IssuedFor(h.req.rid) : issued[j].token >= h.req.token}) = 1
    /\ \A j \in 1..Len(next_batch) : next_batch[j].rid # h.req.rid

\* The members of the pages before the page of request token t (page t + 1).
PagesBefore(k, t) == Flatten(SubSeq(MemberPages(k), 1, t))

\* C18 as stated: after the sub-request for page k of a group reported an
\* error, no request for that page or a later one of the group is issued in
\* the run, and the group's members is exactly the members of pages 1..k-1,
\* the field staying absent when k = 1.
C18_TruncatedExactly ==
    \A i \in FailedPages :
        LET h == handled[i]
            k == h.req.rid
        IN  /\ NotAskedAgain(h)
            /\ IF h.req.token = 0
               THEN "members" \notin DOMAIN groups[k]
               ELSE /\ "members" \in DOMAIN groups[k]
                    /\ groups[k].members = PagesBefore(k, h.req.token)

\* C18: after the sub-request for page k of a group reported an error, no
\* request for that page or a later one of the group is issued in the run,
\* and the group's members is what it held when the run started followed by
\* the members of pages 1..k-1, the field staying as it was at the start
\* (absent if it was absent) when k = 1.
C18_TruncatedAfterStart ==
    \A i \in FailedPages :
        LET h == handled[i]
            k == h.req.rid
        IN  /\ NotAskedAgain(h)
            /\ IF h.req.token = 0
               THEN /\ "members" \in DOMAIN groups[k] <=> "members" \in DOMAIN startGroups[k]
                    /\ "members" \in DOMAIN groups[k] =>
                          groups[k].members = startGroups[k].members
               ELSE /\ "members" \in DOMAIN groups[k]
                    /\ groups[k].members =
                          MembersAtStart(k) \o PagesBefore(k, h.req.token)

\* A run that started from members of an earlier run has returned after the
\* second page of a group failed.
C18_Witness ==
    /\ pc = "idle" /\ op = "get_members"
    /\ \E i \in FailedPages :
          /\ handled[i].req.token = 1
          /\ MembersAtStart(handled[i].req.rid) # << >>
          /\ Len(groups[handled[i].req.rid].members)
                > Len(MembersAtStart(handled[i].req.rid))

\* A run has returned after the first page of a group without members failed.
C18_WitnessFirstPage ==
    /\ pc = "idle" /\ op = "get_members"
    /\ \E i \in FailedPages :
          /\ handled[i].req.token = 0
          /\ "members" \notin DOMAIN groups[handled[i].req.rid]

\* n repetitions of the sequence q
RECURSIVE Repeat(_, _)
Repeat(q, n) == IF n = 0 THEN << >> ELSE q \o Repeat(q, n - 1)

\* C19: get_members accumulates: after k runs of get_members in which every
\* sub-request succeeded, on records listed without members and with no
\* get_groups in between, each group's members is k repetitions of the
\* concatenation of its member pages.
C19_MembersAccumulate ==
    (pc = "idle" /\ runs >= 1) =>
        \A k \in DOMAIN groups :
            /\ "members" \in DOMAIN groups[k]
            /\ groups[k].members = Repeat(Flatten(MemberPages(k)), runs)

\* Two such runs have returned: the two pages of a group are there twice.
C19_Witness ==
    /\ pc = "idle" /\ op = "get_members"
    /\ runs = 2
    /\ ax \in DOMAIN groups
    /\ groups[ax].members = <<1, 2, 3, 4, 5, 1, 2, 3, 4, 5>>

\* The keys a listing stores under.
ListedKeys(listed) == {lower(listed[i].email) : i \in 1..Len(listed)}

\* C20: re-listing discards enrichment: get_groups replaces the record of
\* every group the listing returns by the freshly listed object, so merged
\* settings fields and the members of that record are gone, while the records
\* of groups the listing does not return keep their contents.
C20_RelistDiscards ==
    [][GetGroupsStep =>
          LET listed == Flatten(remote) IN
          /\ \A k \in ListedKeys(listed) :
                /\ groups'[k] = LastListed(listed, k)
                /\ "members" \notin DOMAIN groups'[k]
                /\ "whoCanJoin" \notin DOMAIN groups'[k]
          /\ \A k \in DOMAIN groups \ ListedKeys(listed) :
                groups'[k] = groups[k]]_vars

\* get_groups ran on records with members: a listed group lost them, a group
\* the listing no longer returns kept them.
C20_Witness ==
    /\ op = "get_groups"
    /\ prevList # << >>
    /\ \E k \in ListedKeys(Flatten(remote)) :
          /\ k \in DOMAIN startGroups
          /\ "members" \in DOMAIN startGroups[k]
          /\ startGroups[k].members # << >>
          /\ "members" \notin DOMAIN groups[k]
    /\ \E k \in DOMAIN groups \ ListedKeys(Flatten(remote)) :
          /\ "members" \in DOMAIN groups[k]
          /\ groups[k] = startGroups[k]

\* get_groups ran on records with merged settings, which a listed group lost.
C20_WitnessSettings ==
    /\ op = "get_groups"
    /\ prevList # << >>
    /\ \E k \in ListedKeys(Flatten(remote)) :
          /\ k \in DOMAIN startGroups
          /\ "whoCanJoin" \in DOMAIN startGroups[k]
          /\ "whoCanJoin" \notin DOMAIN groups[k]

====
